---- MODULE Spec2Model ----
(***************************************************************************)
(* YellowBatchService (yellow/src/batch-service.ts): the in-memory queue   *)
(* of transfer requests, the interval callback that starts a batch, the    *)
(* per-batch WebSocket session against the clearing network (handshake,    *)
(* send loop, confirmation / error handlers, deadline), settleOnChain and  *)
(* fallbackOnChain.                                                        *)
(*                                                                         *)
(* The service runs on one JavaScript event loop: a callback runs without  *)
(* interruption up to its next await on I/O or on a timer.  Each action    *)
(* below is one such uninterrupted piece.  Awaits on pure computation      *)
(* (message signing) and promise reactions (.catch) are microtasks and run *)
(* before any other event, so they belong to the piece that starts them.   *)
(* Time is abstracted: timers and network events interleave freely.        *)
(***************************************************************************)
EXTENDS Integers, Sequences, FiniteSets, TLC

\* Bounds of the model.  Spec follows one batch over up to MaxTx requests;
\* SpecTwo follows up to TwoMaxBatch batches over up to TwoMaxTx requests;
\* SpecSubmit follows SubmitMaxBatch batches over up to SubmitMaxTx requests
\* that come in through POST /api/yellow/send with any body; SpecNet follows
\* NetMaxBatch batches over up to NetMaxTx requests against a network that
\* also sends balance updates; SpecMicro follows MicroMaxBatch batches over up
\* to MicroMaxTx requests with decimal amounts.  The network answers the verification message
\* of a session up to MaxAuthVerify times (TwoMaxAuthVerify,
\* SubmitMaxAuthVerify, NetMaxAuthVerify, MicroMaxAuthVerify).
MaxTx == 3
MaxBatch == 1
TwoMaxTx == 2
TwoMaxBatch == 2
MaxAuthVerify == 1
TwoMaxAuthVerify == 1
SubmitMaxTx == 2
SubmitMaxBatch == 1
SubmitMaxAuthVerify == 1
NetMaxTx == 2
NetMaxBatch == 1
NetMaxAuthVerify == 2
MicroMaxTx == 2
MicroMaxBatch == 1
MicroMaxAuthVerify == 1

Larger(a, b) == IF a > b THEN a ELSE b

TxId == 1..Larger(Larger(MaxTx, TwoMaxTx),
                  Larger(SubmitMaxTx, Larger(NetMaxTx, MicroMaxTx)))
BatchId == 1..Larger(Larger(MaxBatch, TwoMaxBatch),
                     Larger(SubmitMaxBatch, Larger(NetMaxBatch, MicroMaxBatch)))
Pos == TxId

\* The recipientAddress and amount fields a request body can carry: absent,
\* the empty string, and strings that are no number, a negative number, a
\* non-negative number.
Absent == "absent"
Recipients == {Absent, "", "0xRecipient"}
Amounts == {Absent, "", "abc", "-5", "10"}

\* Amounts that are decimal numbers with at most six fractional digits.
DecimalAmounts == {"0", "5", "0.5", "4.1", "8.3", "0.000001", "12.345678"}

VARIABLES
    status,                 \* tx.status of every request ("none": not submitted yet)
    amount,                 \* tx.amount of every request
    pendingTransactions,    \* this.pendingTransactions, a sequence of requests
    completedTransactions,  \* this.completedTransactions: how often each request is in it
    isProcessing,           \* this.isProcessing
    batchCount,             \* this.batchCount
    ledgerBalance,          \* this.ledgerBalance
    batch                   \* the closure of every processViaNitrolite call so far

vars == <<status, amount, pendingTransactions, completedTransactions, isProcessing,
          batchCount, ledgerBalance, batch>>

Zero == [i \in Pos |-> 0]

\* The Number NaN (the representation of Numbers is described at AmountMicro).
NaN == [nan |-> TRUE, neg |-> FALSE, num |-> << >>, den |-> 0]

\* The closure variables of one processViaNitrolite call, the fallback run its
\* rejection starts, and the clearing network's view of the session.
NoBatch ==
    [ txs                |-> << >>,     \* transactions (the claimed snapshot)
      ws                 |-> "none",    \* connecting, open, closing, closed
      hs                 |-> "none",    \* handshake progress seen by the network
      authed             |-> FALSE,
      transfersSent      |-> 0,
      transfersConfirmed |-> 0,
      timeout            |-> FALSE,     \* the 2 minute timer is armed
      promise            |-> "none",    \* pending, resolved, rejected
      authVerifies       |-> 0,         \* auth_verify messages delivered
      loops              |-> << >>,     \* next position of each running send loop
      settling           |-> Zero,      \* settleOnChain runs awaiting the answer for position i
      fb                 |-> 0,         \* fallbackOnChain: position awaited; Len+1 when done
      wire               |-> Zero,      \* instructions put on the connection, per position
      answered           |-> Zero,      \* confirmations and errors delivered, per position
      micro              |-> [i \in Pos |-> NaN],  \* amountMicro of the instruction on the connection
      verdict            |-> [i \in Pos |-> "none"],  \* the network's last answer, while the session has not failed
      calls              |-> Zero ]     \* settlement endpoint calls, per position (2: several)

\* The program state as one value, so that the pieces of a handler compose.
Cur ==
    [ status |-> status,
      amount |-> amount,
      pendingTransactions |-> pendingTransactions,
      completedTransactions |-> completedTransactions,
      isProcessing |-> isProcessing,
      batchCount |-> batchCount,
      ledgerBalance |-> ledgerBalance,
      batch |-> batch ]

\* The step to the program state s (s is evaluated once).
Set(s) ==
    \E v \in {s} :
        /\ status' = v.status
        /\ amount' = v.amount
        /\ pendingTransactions' = v.pendingTransactions
        /\ completedTransactions' = v.completedTransactions
        /\ isProcessing' = v.isProcessing
        /\ batchCount' = v.batchCount
        /\ ledgerBalance' = v.ledgerBalance
        /\ batch' = v.batch

TxAt(s, b, i) == s.batch[b].txs[i]
NTx(s, b) == Len(s.batch[b].txs)

Init ==
    /\ status = [t \in TxId |-> "none"]
    /\ amount = [t \in TxId |-> Absent]
    /\ pendingTransactions = << >>
    /\ completedTransactions = [t \in TxId |-> 0]
    /\ isProcessing = FALSE
    /\ batchCount = 0
    /\ ledgerBalance = "0"
    /\ batch = [b \in BatchId |-> NoBatch]

(***************************************************************************)
(* Pieces of code shared by the handlers                                   *)
(***************************************************************************)

\* pendingTransactions.filter((tx) => tx.status === "pending")
PendingOf(s) == SelectSeq(s.pendingTransactions, LAMBDA t : s.status[t] = "pending")

\* The eviction of finish and fallbackOnChain without its filter predicate.
FilterPendingEvictsAll(s) == [s EXCEPT !.pendingTransactions = << >>]

FilterPending(s) == [s EXCEPT !.pendingTransactions = PendingOf(s)]

\* clearTimeout(timeout)
ClearTimeout(s, b) == [s EXCEPT !.batch[b].timeout = FALSE]

ClearFlag(s) == [s EXCEPT !.isProcessing = FALSE]

\* for (const tx of transactions) if (tx.status === "processing") tx.status = "pending"
Requeue(s, b) ==
    [s EXCEPT !.status = [t \in TxId |->
        IF /\ \E i \in 1..NTx(s, b) : TxAt(s, b, i) = t
           /\ s.status[t] = "processing"
        THEN "pending" ELSE s.status[t]]]

\* ws.close().  On an open socket the closing handshake starts and frames that are
\* already on their way are still delivered; on a socket that is still connecting
\* the handshake is aborted (the error event this emits finds the timer fired,
\* the flag clear and the promise settled, since only the deadline closes a
\* connecting socket).
WsClose(s, b) ==
    [s EXCEPT !.batch[b].ws =
        CASE @ = "open" -> "closing"
          [] @ = "connecting" -> "closed"
          [] OTHER -> @]

\* fetch(`${BACKEND_URL}/api/yellow/settle`, ...) for the request at position i.
\* The model remembers whether a batch has called the endpoint for a request
\* never, once or more than once.
CallSettle(s, b, i) == [s EXCEPT !.batch[b].calls[i] = IF @ = 0 THEN 1 ELSE 2]

\* fallbackOnChain(pending) up to its first await: the first fetch is issued.
StartFallback(s, b) == CallSettle([s EXCEPT !.batch[b].fb = 1], b, 1)

\* reject(err): the first settlement of the promise wins; the .catch of the
\* interval callback then calls fallbackOnChain(pending).
Reject(s, b) ==
    IF s.batch[b].promise = "pending"
    THEN StartFallback([s EXCEPT !.batch[b].promise = "rejected",
                                 !.batch[b].verdict = NoBatch.verdict], b)
    ELSE s

\* resolve()
Resolve(s, b) ==
    IF s.batch[b].promise = "pending"
    THEN [s EXCEPT !.batch[b].promise = "resolved"]
    ELSE s

\* finish(success)
Finish(s, b, success) ==
    LET s1 == ClearFlag(FilterPending(ClearTimeout(s, b)))
        s2 == WsClose(s1, b)
    IN  IF success THEN Resolve(s2, b) ELSE Reject(s2, b)

\* Positions >= from whose request has status completed.
CompletedFrom(s, b, from) ==
    {i \in from..NTx(s, b) : s.status[TxAt(s, b, i)] = "completed"}

Min(S) == CHOOSE x \in S : \A y \in S : x <= y

\* await this.settleOnChain(transactions); finish(true) -- from position `from` up
\* to the next await: requests that are not completed are skipped, the fetch for
\* the first completed one is issued; with none left the loop ends and finish runs.
SettleFrom(s, b, from) ==
    IF CompletedFrom(s, b, from) = {}
    THEN Finish(s, b, TRUE)
    ELSE LET i == Min(CompletedFrom(s, b, from))
         IN  [CallSettle(s, b, i) EXCEPT !.batch[b].settling[i] = @ + 1]

\* this.completedTransactions.push(tx).  No code reads the order of this array
\* (getStatus reads its length, getCompletedTransactions copies it), so it is
\* kept as the number of entries per request.
PushCompleted(s, t) ==
    [s EXCEPT !.completedTransactions[t] = @ + 1]

(***************************************************************************)
(* (parseFloat(tx.amount) * 1_000_000).toString()                          *)
(*                                                                         *)
(* A Number is an IEEE 754 binary64 value.  Here it is NaN or a signed     *)
(* dyadic rational num / 2^den in lowest terms, num written in base 1024   *)
(* without leading zeros.  Number.prototype.toString                       *)
(* gives different strings for different values and the decimal digits of  *)
(* an integer below 10^21, so the string on the wire is identified with    *)
(* the value.  Exponent notation and leading white space or "+" in the     *)
(* input are not followed.                                                 *)
(***************************************************************************)

\* The characters of the strings that occur as amounts.
Chars(a) ==
    CASE a = "abc"       -> <<"a", "b", "c">>
      [] a = "-5"        -> <<"-", "5">>
      [] a = "10"        -> <<"1", "0">>
      [] a = "0"         -> <<"0">>
      [] a = "5"         -> <<"5">>
      [] a = "0.5"       -> <<"0", ".", "5">>
      [] a = "4.1"       -> <<"4", ".", "1">>
      [] a = "8.3"       -> <<"8", ".", "3">>
      [] a = "0.000001"  -> <<"0", ".", "0", "0", "0", "0", "0", "1">>
      [] a = "12.345678" -> <<"1", "2", ".", "3", "4", "5", "6", "7", "8">>
      [] a = "absent"    -> <<"u", "n", "d", "e", "f", "i", "n", "e", "d">>
      [] OTHER           -> << >>

DigitChars == <<"0", "1", "2", "3", "4", "5", "6", "7", "8", "9">>

IsDigit(c) == \E d \in 1..Len(DigitChars) : DigitChars[d] = c

DigitOf(c) == (CHOOSE d \in 1..Len(DigitChars) : DigitChars[d] = c) - 1

\* The longest prefix of cs made of digits.
RECURSIVE DigitPrefix(_)
DigitPrefix(cs) ==
    IF cs = << >> \/ ~IsDigit(Head(cs))
    THEN << >>
    ELSE <<Head(cs)>> \o DigitPrefix(Tail(cs))

\* The natural number written by the digits ds.
RECURSIVE DigitsValue(_)
DigitsValue(ds) ==
    IF ds = << >>
    THEN 0
    ELSE 10 * DigitsValue(SubSeq(ds, 1, Len(ds) - 1)) + DigitOf(ds[Len(ds)])

RECURSIVE Pow10(_)
Pow10(k) == IF k = 0 THEN 1 ELSE 10 * Pow10(k - 1)

\* Natural numbers beyond the range of the model checker's integers are
\* written in base 2^LimbBits, least significant digit first.
LimbBits == 10
Base == 2^LimbBits

\* The digits of the natural number n.
RECURSIVE LimbsOf(_)
LimbsOf(n) == IF n = 0 THEN << >> ELSE <<n % Base>> \o LimbsOf(n \div Base)

\* ls without leading zeros.
RECURSIVE Norm(_)
Norm(ls) ==
    IF ls # << >> /\ ls[Len(ls)] = 0 THEN Norm(SubSeq(ls, 1, Len(ls) - 1)) ELSE ls

\* ls * Base^n
ShiftLimbs(ls, n) == IF ls = << >> THEN << >> ELSE [j \in 1..n |-> 0] \o ls

\* ls * c + carry, for a small natural number c.
RECURSIVE MulSmall(_, _, _)
MulSmall(ls, c, carry) ==
    IF ls = << >>
    THEN LimbsOf(carry)
    ELSE LET v == Head(ls) * c + carry
         IN  <<v % Base>> \o MulSmall(Tail(ls), c, v \div Base)

\* Quotient (digits 1..i) and remainder of the long division of ls by the small
\* natural number d, with rem carried in from the digits above i.
RECURSIVE DivSmall(_, _, _, _)
DivSmall(ls, i, d, rem) ==
    IF i = 0
    THEN [q |-> << >>, r |-> rem]
    ELSE LET v    == Base * rem + ls[i]
             rest == DivSmall(ls, i - 1, d, v % d)
         IN  [q |-> Append(rest.q, v \div d), r |-> rest.r]

\* ls + 1
RECURSIVE Inc(_)
Inc(ls) ==
    IF ls = << >> THEN <<1>>
    ELSE IF Head(ls) < Base - 1 THEN <<Head(ls) + 1>> \o Tail(ls)
    ELSE <<0>> \o Inc(Tail(ls))

\* The number of bits of the small natural number x.
RECURSIVE BitLen(_)
BitLen(x) == IF x = 0 THEN 0 ELSE 1 + BitLen(x \div 2)

\* The number of bits of ls.
Bits(ls) == IF ls = << >> THEN 0 ELSE LimbBits * (Len(ls) - 1) + BitLen(ls[Len(ls)])

\* floor(ls / 2^n), and whether bits were lost.
DropBits(ls, n) ==
    LET a  == n \div LimbBits
        hi == SubSeq(ls, a + 1, Len(ls))
        d  == DivSmall(hi, Len(hi), 2^(n % LimbBits), 0)
    IN  [q |-> Norm(d.q),
         sticky |-> d.r # 0 \/ \E j \in 1..a : j <= Len(ls) /\ ls[j] # 0]

Odd(ls) == ls # << >> /\ ls[1] % 2 = 1

\* The significand of binary64 has 53 bits.
Precision == 53

\* Round to nearest, ties to even: the natural number ls (plus a fraction
\* that is not zero if sticky) as m * 2^e with m of at most Precision bits.
RoundToPrecision(ls, sticky) ==
    IF Bits(ls) <= Precision
    THEN [m |-> ls, e |-> 0]
    ELSE LET drop == Bits(ls) - Precision
             t    == DropBits(ls, drop - 1)
             h    == DropBits(t.q, 1)
             up   == Odd(t.q) /\ (sticky \/ t.sticky \/ Odd(h.q))
         IN  [m |-> IF up THEN Inc(h.q) ELSE h.q, e |-> drop]

\* The number of zero bits at the low end of ls (ls is not zero).
RECURSIVE LowZeros(_)
LowZeros(x) == IF x % 2 = 1 THEN 0 ELSE 1 + LowZeros(x \div 2)

RECURSIVE TrailingZeros(_)
TrailingZeros(ls) ==
    IF Head(ls) = 0 THEN LimbBits + TrailingZeros(Tail(ls)) ELSE LowZeros(Head(ls))

\* The value (-1)^neg * m * 2^e in lowest terms.
Dyadic(neg, m, e) ==
    IF m = << >> THEN [nan |-> FALSE, neg |-> neg, num |-> << >>, den |-> 0]
    ELSE IF e >= 0
    THEN [nan |-> FALSE, neg |-> neg, den |-> 0,
          num |-> MulSmall(ShiftLimbs(m, e \div LimbBits), 2^(e % LimbBits), 0)]
    ELSE LET r == IF TrailingZeros(m) < 0 - e THEN TrailingZeros(m) ELSE 0 - e
         IN  [nan |-> FALSE, neg |-> neg, num |-> DropBits(m, r).q, den |-> 0 - e - r]

\* The binary64 value nearest to n / 10^k (n * Base^8 is divided by 10^k, so the
\* quotient has more bits than the significand), then its product with
\* 1000000 rounded to binary64.
TimesMillion(neg, n, k) ==
    LET scaled == ShiftLimbs(LimbsOf(n), 8)
        d      == DivSmall(scaled, Len(scaled), Pow10(k), 0)
        x      == RoundToPrecision(Norm(d.q), d.r # 0)
        y      == RoundToPrecision(MulSmall(x.m, 1000000, 0), FALSE)
    IN  Dyadic(neg, y.m, x.e + y.e - 8 * LimbBits)

\* The decimal number at the start of the string a: sign, digits, "." and
\* digits are read, what follows is ignored; n is the number written by all
\* the digits, k the count of fractional digits.
Decimal(a) ==
    LET cs   == Chars(a)
        neg  == cs # << >> /\ Head(cs) = "-"
        body == IF neg THEN Tail(cs) ELSE cs
        ip   == DigitPrefix(body)
        rest == SubSeq(body, Len(ip) + 1, Len(body))
        fp   == IF rest # << >> /\ Head(rest) = "." THEN DigitPrefix(Tail(rest)) ELSE << >>
    IN  [ok |-> ip # << >> \/ fp # << >>, neg |-> neg,
         n |-> DigitsValue(ip \o fp), k |-> Len(fp)]

\* (parseFloat(a) * 1_000_000).toString()
AmountMicro(a) ==
    LET d == Decimal(a)
    IN  IF d.ok THEN TimesMillion(d.neg, d.n, d.k) ELSE NaN

\* amountMicro for every string that occurs as an amount.
MicroOf == [a \in Amounts \cup DecimalAmounts |-> AmountMicro(a)]

\* ws.send(transferMsg); transfersSent++ for the request at position i.  A frame
\* given to a socket that is no longer open is dropped by the library.
SendTransfer(s, b, i) ==
    [s EXCEPT !.batch[b].transfersSent = @ + 1,
              !.batch[b].wire[i] = IF s.batch[b].ws = "open" THEN @ + 1 ELSE @,
              !.batch[b].micro[i] =
                    IF s.batch[b].ws = "open" THEN MicroOf[s.amount[TxAt(s, b, i)]] ELSE @]

(***************************************************************************)
(* processViaNitrolite: the synchronous head and the handlers              *)
(***************************************************************************)

\* Lines 148-150 and 163-177: flag, counter, statuses, socket, timer.
ProcessViaNitrolite(s, txs) ==
    LET b == s.batchCount + 1
    IN  [s EXCEPT
            !.isProcessing = TRUE,
            !.batchCount = b,
            !.status = [t \in TxId |->
                IF \E i \in 1..Len(txs) : txs[i] = t THEN "processing" ELSE @[t]],
            !.batch[b] = [NoBatch EXCEPT
                !.txs = txs, !.ws = "connecting", !.hs = "connecting",
                !.timeout = TRUE, !.promise = "pending"]]

\* The timer callback without its line this.isProcessing = false.
OnTimeoutKeepsFlag(s, b) ==
    LET s1 == [Requeue(s, b) EXCEPT !.batch[b].timeout = FALSE]
    IN  Reject(WsClose(s1, b), b)

\* The timer callback.
OnTimeout(s, b) ==
    LET s1 == [Requeue(s, b) EXCEPT !.batch[b].timeout = FALSE]
    IN  Reject(WsClose(ClearFlag(s1), b), b)

\* The catch of the open handler.
OnOpenThrow(s, b) == Reject(ClearFlag(ClearTimeout(s, b)), b)

\* if (resp.error) { ... }
OnRespError(s, b) ==
    LET s1 == Requeue(ClearFlag(ClearTimeout(s, b)), b)
    IN  WsClose(Reject(s1, b), b)

\* The catch of the message handler.
OnMessageThrow(s, b) == WsClose(Reject(ClearFlag(ClearTimeout(s, b)), b), b)

\* ws.on("error") without its last line, reject(err).
OnWsErrorSwallowed(s, b) ==
    [ClearFlag(ClearTimeout(s, b)) EXCEPT !.batch[b].ws = "closed"]

\* ws.on("error")
OnWsError(s, b) ==
    [Reject(ClearFlag(ClearTimeout(s, b)), b) EXCEPT !.batch[b].ws = "closed"]

\* if (method === "auth_challenge" && !authed) { ... }: the verification message
\* is signed and sent; the network has it if the socket is open.
OnAuthChallenge(s, b) ==
    IF ~s.batch[b].authed /\ s.batch[b].ws = "open"
    THEN [s EXCEPT !.batch[b].hs = "challenged"]
    ELSE s

\* if (method === "auth_verify") { ... } up to the first timer await: the first
\* instruction is sent, the loop sleeps before the next.
OnAuthVerify(s, b) ==
    LET s1 == [s EXCEPT !.batch[b].authed = TRUE]
        s2 == SendTransfer(s1, b, 1)
    IN  IF NTx(s, b) >= 2
        THEN [s2 EXCEPT !.batch[b].loops = Append(@, 2)]
        ELSE s2

\* One more turn of the send loop numbered k.
OnLoopWake(s, b, k) ==
    LET i  == s.batch[b].loops[k]
        s1 == SendTransfer(s, b, i)
        rest == [j \in 1..(Len(s.batch[b].loops) - 1) |->
                    IF j < k THEN s.batch[b].loops[j] ELSE s.batch[b].loops[j + 1]]
    IN  IF i < NTx(s, b)
        THEN [s1 EXCEPT !.batch[b].loops[k] = i + 1]
        ELSE [s1 EXCEPT !.batch[b].loops = rest]

\* The request a confirmation or error is attributed to:
\* transactions[transfersConfirmed - 1] after the increment.
Attributed(s, b) == s.batch[b].transfersConfirmed + 1

\* if (method === "transfer") { ... }
OnTransfer(s, b) ==
    LET n  == Attributed(s, b)
        s1 == [s EXCEPT !.batch[b].transfersConfirmed = n]
        s2 == IF n <= NTx(s, b)
              THEN PushCompleted([s1 EXCEPT !.status[TxAt(s, b, n)] = "completed"],
                                 TxAt(s, b, n))
              ELSE s1
    IN  IF n >= s.batch[b].transfersSent THEN SettleFrom(s2, b, 1) ELSE s2

\* if (method === "error") { ... }
OnError(s, b) ==
    LET n  == Attributed(s, b)
        s1 == [s EXCEPT !.batch[b].transfersConfirmed = n]
        s2 == IF n <= NTx(s, b) /\ s.status[TxAt(s, b, n)] = "processing"
              THEN PushCompleted([s1 EXCEPT !.status[TxAt(s, b, n)] = "failed"],
                                 TxAt(s, b, n))
              ELSE s1
    IN  IF n >= s.batch[b].transfersSent
        THEN IF CompletedFrom(s2, b, 1) # {}
             THEN SettleFrom(s2, b, 1)
             ELSE Finish(s2, b, FALSE)
        ELSE s2

\* settleOnChain after the answer for position i: the answer (result.success,
\* or the exception of fetch) is only logged.
OnSettleAnswer(s, b, i, ok) ==
    SettleFrom([s EXCEPT !.batch[b].settling[i] = @ - 1], b, i + 1)

\* fallbackOnChain with the try/catch around the loop instead of inside it: a
\* failed call ends the run.
OnFallbackAnswerAbort(s, b, ok) ==
    LET i  == s.batch[b].fb
        t  == TxAt(s, b, i)
        s1 == PushCompleted(
                [s EXCEPT !.status[t] = IF ok THEN "completed" ELSE "failed",
                          !.batch[b].fb = IF ok THEN i + 1 ELSE NTx(s, b) + 1], t)
    IN  IF ok /\ i < NTx(s, b)
        THEN CallSettle(s1, b, i + 1)
        ELSE ClearFlag(FilterPending(s1))

\* fallbackOnChain after the answer for the awaited position.
OnFallbackAnswer(s, b, ok) ==
    LET i  == s.batch[b].fb
        t  == TxAt(s, b, i)
        s1 == PushCompleted(
                [s EXCEPT !.status[t] = IF ok THEN "completed" ELSE "failed",
                          !.batch[b].fb = i + 1], t)
    IN  IF i < NTx(s, b)
        THEN CallSettle(s1, b, i + 1)
        ELSE ClearFlag(FilterPending(s1))

(***************************************************************************)
(* The events                                                              *)
(***************************************************************************)

Started(b) == b <= batchCount

\* A frame can be delivered on a socket that is open or closing.
Receiving(b) == Started(b) /\ batch[b].ws \in {"open", "closing"}

\* Instructions for position i the network has not answered yet.
Owed(b, i) == batch[b].wire[i] - batch[b].answered[i]

\* The body of queueTransaction: the request t is appended with status pending.
Enqueue(s, t, a) ==
    [s EXCEPT !.status[t] = "pending",
              !.amount[t] = a,
              !.pendingTransactions = Append(@, t)]

\* queueTransaction(...) with a well-formed amount: a request with a fresh
\* identifier is appended.
QueueTransaction(maxTx) ==
    /\ \E t \in 1..maxTx : status[t] = "none"
    /\ LET t == Min({u \in 1..maxTx : status[u] = "none"})
       IN  Set(Enqueue(Cur, t, "10"))

\* !recipientAddress || !amount on the fields of the request body.
Missing(r, a) == r \in {Absent, ""} \/ a \in {Absent, ""}

\* POST /api/yellow/send answered with status 400.
PostSendRefused(r, a) == Missing(r, a) /\ UNCHANGED vars

\* POST /api/yellow/send handed to queueTransaction.
PostSendQueued(maxTx, r, a) ==
    /\ ~Missing(r, a)
    /\ \E t \in 1..maxTx : status[t] = "none"
    /\ LET t == Min({u \in 1..maxTx : status[u] = "none"})
       IN  Set(Enqueue(Cur, t, a))

\* app.post("/api/yellow/send", ...)
PostSend(maxTx, amounts) ==
    \E r \in Recipients : \E a \in amounts :
        PostSendRefused(r, a) \/ PostSendQueued(maxTx, r, a)

\* The setInterval callback.
TickBusy == isProcessing /\ UNCHANGED vars

TickIdle == ~isProcessing /\ Len(PendingOf(Cur)) = 0 /\ UNCHANGED vars

TickStart(maxBatch) ==
    /\ batchCount < maxBatch
    /\ ~isProcessing
    /\ Len(PendingOf(Cur)) > 0
    /\ Set(ProcessViaNitrolite(Cur, PendingOf(Cur)))

Tick(maxBatch) == TickBusy \/ TickIdle \/ TickStart(maxBatch)

\* ws.on("open"): the authentication request is sent.
WsOpen(b) ==
    /\ Started(b) /\ batch[b].ws = "connecting"
    /\ Set([Cur EXCEPT !.batch[b].ws = "open", !.batch[b].hs = "requested"])

\* ws.on("open") with createAuthRequestMessage or ws.send throwing.
WsOpenThrow(b) ==
    /\ Started(b) /\ batch[b].ws = "connecting"
    /\ Set(OnOpenThrow([Cur EXCEPT !.batch[b].ws = "open", !.batch[b].hs = "failed"], b))

\* auth_challenge
MsgAuthChallenge(b) ==
    /\ Receiving(b) /\ batch[b].hs \in {"requested", "challenged"}
    /\ Set(OnAuthChallenge(Cur, b))

\* auth_verify: the network's answer to the verification message.
MsgAuthVerify(b, maxVerify) ==
    /\ Receiving(b) /\ batch[b].hs \in {"challenged", "verified"}
    /\ batch[b].authVerifies < maxVerify
    /\ Set(OnAuthVerify([Cur EXCEPT !.batch[b].hs = "verified",
                                    !.batch[b].authVerifies = @ + 1], b))

\* The network rejects the authentication with an "error" response.
MsgAuthError(b) ==
    /\ Receiving(b) /\ batch[b].hs \in {"requested", "challenged"}
    /\ Set(OnError([Cur EXCEPT !.batch[b].hs = "rejected"], b))

\* The network answers the instruction for position i with v (confirmed or
\* rejected).  The answers are remembered for the sessions that do not fail.
Answer(s, b, i, v) ==
    [s EXCEPT !.batch[b].answered[i] = @ + 1,
              !.batch[b].verdict[i] = IF s.batch[b].promise = "rejected" THEN @ ELSE v]

\* The confirmation of the instruction for position i.
MsgTransfer(b, i) ==
    /\ Receiving(b) /\ Owed(b, i) > 0
    /\ Set(OnTransfer(Answer(Cur, b, i, "confirmed"), b))

\* The rejection of the instruction for position i.
MsgTransferError(b, i) ==
    /\ Receiving(b) /\ Owed(b, i) > 0
    /\ Set(OnError(Answer(Cur, b, i, "rejected"), b))

\* A frame with a top-level error field.  Before the verification it is the
\* network's refusal of the handshake.
MsgRespError(b) ==
    /\ Receiving(b)
    /\ Set(OnRespError([Cur EXCEPT !.batch[b].hs =
            IF @ \in {"requested", "challenged"} THEN "rejected" ELSE @], b))

\* A frame the handler throws on (JSON.parse, a missing field, a tr whose
\* from_account has no slice method).
MsgMalformed(b) == Receiving(b) /\ Set(OnMessageThrow(Cur, b))

\* tr, assets, channels and unknown methods: logged.
MsgInfo(b) == Receiving(b) /\ UNCHANGED vars

\* The amounts a balance update can carry.
Balances == {"0", "7"}

\* The balance_updates of a bu frame: absent or empty, a list whose first
\* entry is null, or a list whose first entry carries an amount.
BalanceUpdates == {Absent, "null"} \cup Balances

\* The bu branch: if (updates?.length > 0) this.ledgerBalance = updates[0].amount;
\* reading .amount of null throws, and the catch of the handler runs.
OnBalanceUpdate(s, b, u) ==
    IF u = Absent THEN s
    ELSE IF u = "null" THEN OnMessageThrow(s, b)
    ELSE [s EXCEPT !.ledgerBalance = u]

\* bu
MsgBalanceUpdate(b) ==
    /\ Receiving(b)
    /\ \E u \in BalanceUpdates : Set(OnBalanceUpdate(Cur, b, u))

\* The send loop wakes from its 300 ms sleep.
LoopWake(b, k) ==
    /\ Started(b) /\ k \in 1..Len(batch[b].loops)
    /\ Set(OnLoopWake(Cur, b, k))

\* The settlement endpoint answers (or fails) a call of settleOnChain.
SettleAnswer(b, i, ok) ==
    /\ Started(b) /\ batch[b].settling[i] > 0
    /\ Set(OnSettleAnswer(Cur, b, i, ok))

\* The settlement endpoint answers (or fails) a call of fallbackOnChain.
FallbackAnswer(b, ok) ==
    /\ Started(b) /\ batch[b].fb \in 1..Len(batch[b].txs)
    /\ Set(OnFallbackAnswer(Cur, b, ok))

\* The 2 minute timer fires.
BatchTimeout(b) == Started(b) /\ batch[b].timeout /\ Set(OnTimeout(Cur, b))

\* The socket fails.
WsError(b) ==
    /\ Started(b) /\ batch[b].ws \in {"connecting", "open", "closing"}
    /\ Set(OnWsError(Cur, b))

\* The socket closes: ws.on("close") only logs.
WsClosed(b) ==
    /\ Receiving(b)
    /\ Set([Cur EXCEPT !.batch[b].ws = "closed"])

\* Everything that happens to a started batch.
Session(maxVerify) ==
    \E b \in BatchId :
        \/ WsOpen(b)
        \/ WsOpenThrow(b)
        \/ MsgAuthChallenge(b)
        \/ MsgAuthVerify(b, maxVerify)
        \/ MsgAuthError(b)
        \/ \E i \in Pos : MsgTransfer(b, i) \/ MsgTransferError(b, i)
        \/ MsgRespError(b)
        \/ MsgMalformed(b)
        \/ MsgInfo(b)
        \/ \E k \in Pos : LoopWake(b, k)
        \/ \E i \in Pos : \E ok \in BOOLEAN : SettleAnswer(b, i, ok)
        \/ \E ok \in BOOLEAN : FallbackAnswer(b, ok)
        \/ BatchTimeout(b)
        \/ WsError(b)
        \/ WsClosed(b)

Next == QueueTransaction(MaxTx) \/ Tick(MaxBatch) \/ Session(MaxAuthVerify)

Spec == Init /\ [][Next]_vars

NextTwo == QueueTransaction(TwoMaxTx) \/ Tick(TwoMaxBatch) \/ Session(TwoMaxAuthVerify)

SpecTwo == Init /\ [][NextTwo]_vars

NextSubmit == PostSend(SubmitMaxTx, Amounts) \/ Tick(SubmitMaxBatch) \/ Session(SubmitMaxAuthVerify)

SpecSubmit == Init /\ [][NextSubmit]_vars

\* Balance updates touch this.ledgerBalance only, which nothing but getStatus
\* reads; SpecNet follows them, the other specifications leave them out.
Balance == \E b \in BatchId : MsgBalanceUpdate(b)

NextNet ==
    QueueTransaction(NetMaxTx) \/ Tick(NetMaxBatch) \/ Session(NetMaxAuthVerify) \/ Balance

SpecNet == Init /\ [][NextNet]_vars

NextMicro ==
    PostSend(MicroMaxTx, DecimalAmounts) \/ Tick(MicroMaxBatch) \/ Session(MicroMaxAuthVerify)

SpecMicro == Init /\ [][NextMicro]_vars

\* setTimeout(..., 2 * 60 * 1000): an armed timer fires unless it is cleared.
TimersFire == \A b \in BatchId : WF_vars(BatchTimeout(b))

\* The program with its timers firing; the network and the settlement endpoint
\* may stay silent for ever.
SpecTimers == Spec /\ TimersFire

\* setInterval keeps firing: a tick that can start a batch is not put off for ever.
TicksFire == WF_vars(TickStart(MaxBatch))

\* The 300 ms sleeps of the send loops end.
LoopsWake == \A b \in BatchId : \A k \in Pos : WF_vars(LoopWake(b, k))

\* The settlement endpoint answers (or fails) every call made to it.
SettlementAnswers ==
    /\ \A b \in BatchId : \A i \in Pos :
           WF_vars(\E ok \in BOOLEAN : SettleAnswer(b, i, ok))
    /\ \A b \in BatchId : WF_vars(\E ok \in BOOLEAN : FallbackAnswer(b, ok))

\* The program with ticks and timers firing and the settlement endpoint
\* answering; nothing is assumed of the network.
SpecFair == Spec /\ TimersFire /\ TicksFire /\ LoopsWake /\ SettlementAnswers

(***************************************************************************)
(* Vocabulary of the properties                                            *)
(***************************************************************************)

Claimed(b) == {batch[b].txs[i] : i \in 1..Len(batch[b].txs)}

\* Work of batch b is still going on: its session has not been resolved or
\* rejected, a send loop or a settleOnChain run is suspended, or its fallback
\* run awaits the settlement endpoint.
InFlight(b) ==
    /\ Started(b)
    /\ \/ batch[b].promise = "pending"
       \/ batch[b].loops # << >>
       \/ \E i \in Pos : batch[b].settling[i] > 0
       \/ batch[b].fb \in 1..Len(batch[b].txs)

Closed(b) == Started(b) /\ ~InFlight(b)

RECURSIVE SumTo(_, _)
SumTo(f, n) == IF n = 0 THEN 0 ELSE f[n] + SumTo(f, n - 1)

\* Instructions that went out on the connection of batch b.
WireTotal(b) == SumTo(batch[b].wire, Len(batch[b].txs))

(***************************************************************************)
(* Properties                                                              *)
(***************************************************************************)

\* C1: at most one batch is in flight at any time: while any work of a batch
\* (session, settlement, fallback run) is going on, no other batch has started
\* and not ended.
SingleFlight == Cardinality({b \in BatchId : InFlight(b)}) <= 1

\* C2: no request is worked on by two batch attempts at once.
RequestInOneBatch ==
    \A t \in TxId : Cardinality({b \in BatchId : InFlight(b) /\ t \in Claimed(b)}) <= 1

\* C3: within one batch attempt that got to send its instructions, the
\* settlement endpoint is called at most once per request, by settleOnChain and
\* fallbackOnChain together.
SettleOncePerRequest ==
    \A b \in BatchId : \A i \in 1..Len(batch[b].txs) :
        batch[b].hs = "verified" => batch[b].calls[i] <= 1

\* C4: when a batch has closed, none of the requests it claimed is left in
\* status processing.
ClosedBatchLeavesNoProcessing ==
    \A b \in BatchId : Closed(b) => \A t \in Claimed(b) : status[t] # "processing"

\* C6: a batch that was authenticated and closed without a fatal failure has put
\* as many transfer instructions on its connection as it claimed requests.
SentEqualsClaimed ==
    \A b \in BatchId :
        (Closed(b) /\ batch[b].authed /\ batch[b].promise = "resolved")
            => WireTotal(b) = Len(batch[b].txs)

\* C5: a confirmation marks completed the request whose instruction it
\* confirms, and a transfer error marks failed the request whose instruction was
\* rejected, and neither touches another request, in whatever order the answers
\* of a running batch arrive.
AnswersCorrelate ==
    [][\A b \in BatchId : \A i \in Pos :
        /\ (batch[b].promise = "pending" /\ MsgTransfer(b, i)) =>
              status' = [status EXCEPT ![batch[b].txs[i]] = "completed"]
        /\ (batch[b].promise = "pending" /\ MsgTransferError(b, i)) =>
              status' = [status EXCEPT ![batch[b].txs[i]] = "failed"]]_vars

\* C7: a tick starts a batch exactly when the in-flight flag is clear and some
\* request has status pending.  The callback's own test is the flag and the
\* queue filtered by status pending, so with the flag clear, no batch at work
\* and a request of status pending, the queue holds a pending request: the
\* tick starts a batch, and is a no-op only when no request is pending.
TickStartsOnPendingStatus ==
    (/\ ~isProcessing
     /\ \A b \in BatchId : ~InFlight(b)
     /\ \E t \in TxId : status[t] = "pending") =>
        Len(PendingOf(Cur)) > 0

\* C8: a transfer error for one instruction of a running batch fails that
\* request only: no other request changes status, and while other instructions
\* are unanswered the connection stays open and the session goes on.
TransferErrorIsLocal ==
    [][\A b \in BatchId : \A i \in Pos :
        (/\ batch[b].promise = "pending" /\ batch[b].ws = "open"
         /\ MsgTransferError(b, i)) =>
            /\ \A t \in TxId \ {batch[b].txs[i]} : status'[t] = status[t]
            /\ (\E j \in 1..Len(batch[b].txs) : j # i /\ batch[b].answered[j] = 0) =>
                    (batch'[b].ws = "open" /\ batch'[b].promise = "pending")]_vars

\* The events that are fatal for batch b: a refused handshake, a protocol error
\* frame, an exception in a handler, a socket error, the deadline.
FatalStep(b) ==
    \/ MsgAuthError(b) \/ MsgRespError(b) \/ MsgMalformed(b)
    \/ WsOpenThrow(b) \/ WsError(b) \/ BatchTimeout(b)

\* C9: the fallback run of a batch starts only in a step that is fatal for the
\* batch; the rejection of a transfer instruction never starts it.
FallbackOnlyAfterFatal ==
    [][\A b \in BatchId :
        (batch[b].fb = 0 /\ batch'[b].fb # 0) => FatalStep(b)]_vars

\* C10: once the network has refused the handshake of a batch, no transfer
\* instruction of that batch is on the connection, and the fallback run over the
\* claimed requests has started and has called the settlement endpoint for every
\* request it has reached.
AuthFailureGoesToFallback ==
    \A b \in BatchId :
        batch[b].hs = "rejected" =>
            /\ WireTotal(b) = 0
            /\ batch[b].promise = "rejected"
            /\ batch[b].fb >= 1
            /\ \A i \in 1..Len(batch[b].txs) : i <= batch[b].fb => batch[b].calls[i] >= 1

\* The requests listed by getPendingTransactions.
Queued == {pendingTransactions[k] : k \in 1..Len(pendingTransactions)}

\* C11: when the deadline of a batch that has sent instructions elapses, every
\* request of the batch that is still processing is pending afterwards and
\* listed in the queue, the batch makes no settlement call for it, and the
\* requests already completed or failed keep their status.
DeadlineRequeuesUnconfirmed ==
    [][\A b \in BatchId :
        (batch[b].promise = "pending" /\ batch[b].authed /\ BatchTimeout(b)) =>
            \A i \in 1..Len(batch[b].txs) :
                LET t == batch[b].txs[i]
                IN  IF status[t] = "processing"
                    THEN /\ status'[t] = "pending"
                         /\ t \in Queued'
                         /\ batch'[b].calls[i] = batch[b].calls[i]
                    ELSE status'[t] = status[t]]_vars

\* C12: when the connection fails in the middle of a batch (some request is
\* still processing), a request the network has confirmed and that is completed
\* stays completed and gets no settlement call from the fallback run the
\* failure starts.
ConnectionErrorSparesConfirmed ==
    [][\A b \in BatchId :
        (/\ batch[b].promise = "pending" /\ batch[b].authed
         /\ \E j \in 1..Len(batch[b].txs) : status[batch[b].txs[j]] = "processing"
         /\ WsError(b)) =>
            \A i \in 1..Len(batch[b].txs) :
                (/\ batch[b].verdict[i] = "confirmed"
                 /\ status[batch[b].txs[i]] = "completed") =>
                    /\ status'[batch[b].txs[i]] = "completed"
                    /\ batch'[b].calls[i] = batch[b].calls[i]]_vars

\* The batch-fatal events: a protocol error frame, an exception in the open or
\* in the message handler, a socket error, the deadline.
FatalEvent(b) ==
    \/ MsgRespError(b) \/ MsgMalformed(b) \/ WsOpenThrow(b)
    \/ WsError(b) \/ BatchTimeout(b)

\* C13: a batch-fatal event that hits a batch whose session has not been
\* resolved or rejected yet rejects the session and starts the fallback run
\* over the requests of the batch in the same step; a fallback run, once
\* started, only advances request by request and is never started again.
FatalEventStartsOneFallback ==
    [][\A b \in BatchId :
        /\ (batch[b].promise = "pending" /\ FatalEvent(b)) =>
                /\ batch'[b].promise = "rejected"
                /\ batch[b].fb = 0 /\ batch'[b].fb = 1
                /\ batch'[b].calls[1] >= 1
        /\ batch[b].fb # 0 =>
                /\ batch'[b].fb \in {batch[b].fb, batch[b].fb + 1}
                /\ batch'[b].promise = "rejected"
        /\ batch'[b].txs # batch[b].txs => batch[b].fb = 0]_vars

\* A batch of at least two requests that had sent instructions and had no
\* answer yet was hit by a fatal event, and its fallback run has gone through
\* all of its requests.
FallbackRunOver ==
    \E b \in BatchId :
        /\ batch[b].authed /\ Len(batch[b].txs) >= 2
        /\ batch[b].transfersConfirmed = 0
        /\ batch[b].promise = "rejected"
        /\ batch[b].fb = Len(batch[b].txs) + 1

\* C14: a request changes status only from pending to processing, from
\* processing to completed, failed or pending, and (on submission) from not
\* existing to pending.
OnlyLifecycleTransitions ==
    [][\A t \in TxId :
        \/ status'[t] = status[t]
        \/ status[t] = "none" /\ status'[t] = "pending"
        \/ status[t] = "pending" /\ status'[t] = "processing"
        \/ status[t] = "processing" /\ status'[t] \in {"completed", "failed", "pending"}]_vars

\* C15: when a batch has closed with its session resolved, every request whose
\* instruction the network confirmed is completed and the settlement endpoint
\* has been called for it, and every request whose instruction the network
\* rejected is failed and the settlement endpoint has not been called for it.
NormalCloseSettlesConfirmedOnly ==
    \A b \in BatchId :
        (Closed(b) /\ batch[b].promise = "resolved") =>
            \A i \in 1..Len(batch[b].txs) :
                /\ batch[b].verdict[i] = "confirmed" =>
                        (status[batch[b].txs[i]] = "completed" /\ batch[b].calls[i] >= 1)
                /\ batch[b].verdict[i] = "rejected" =>
                        (status[batch[b].txs[i]] = "failed" /\ batch[b].calls[i] = 0)

\* C16: when the settlement endpoint answers a call of settleOnChain with a
\* non-success response or the call throws, the request of that call is failed
\* afterwards, and no other request changes status.
SettleFailureFailsRequest ==
    [][\A b \in BatchId : \A i \in 1..Len(batch[b].txs) :
        SettleAnswer(b, i, FALSE) =>
            /\ status'[batch[b].txs[i]] = "failed"
            /\ \A t \in TxId \ {batch[b].txs[i]} : status'[t] = status[t]]_vars

\* C17: a fallback run goes through the requests of its batch one by one: on
\* the answer for a request it sets that request completed if the call
\* succeeded and failed otherwise, changes no other request, and issues the
\* call for the next request whatever the answer was; so the endpoint has been
\* called for every request the run has reached.
FallbackIsPerRequest ==
    [][\A b \in BatchId :
        /\ \A ok \in BOOLEAN :
              FallbackAnswer(b, ok) =>
                LET i == batch[b].fb
                    t == batch[b].txs[i]
                IN  /\ status'[t] = IF ok THEN "completed" ELSE "failed"
                    /\ \A u \in TxId \ {t} : status'[u] = status[u]
                    /\ batch'[b].fb = i + 1
                    /\ \A j \in 1..Len(batch[b].txs) :
                          batch'[b].calls[j] =
                            IF j = i + 1
                            THEN (IF batch[b].calls[j] = 0 THEN 1 ELSE 2)
                            ELSE batch[b].calls[j]
        /\ \A j \in 1..Len(batch'[b].txs) :
              (batch'[b].fb # 0 /\ j <= batch'[b].fb) => batch'[b].calls[j] >= 1]_vars

\* A fallback run over three requests that the network never answered is over,
\* with calls that succeeded and calls that failed.
FallbackMixedOutcome ==
    \E b \in BatchId :
        /\ Len(batch[b].txs) = 3 /\ batch[b].fb = 4
        /\ batch[b].transfersConfirmed = 0
        /\ \E i, j \in 1..3 : /\ status[batch[b].txs[i]] = "completed"
                               /\ status[batch[b].txs[j]] = "failed"

\* C18: once the outcome of a batch is reported (its session resolved or
\* rejected), close has been requested on its connection: the socket is closing
\* or closed.
OutcomeImpliesConnectionReleased ==
    \A b \in BatchId :
        batch[b].promise \in {"resolved", "rejected"} =>
            batch[b].ws \in {"closing", "closed"}

\* The amounts that parse to a non-negative number.
WellFormed(a) == ~MicroOf[a].nan /\ ~MicroOf[a].neg

\* C19: a submission with a missing recipient, a missing amount or an amount
\* that does not parse to a non-negative number never enters the queue: every
\* request that exists, in the queue or claimed by a batch, has an amount that
\* parses to a non-negative number.
QueuedAmountsWellFormed ==
    /\ \A t \in TxId : status[t] # "none" => WellFormed(amount[t])
    /\ \A t \in Queued : WellFormed(amount[t])
    /\ \A b \in BatchId : \A t \in Claimed(b) : WellFormed(amount[t])

\* No batch has claimed the request t.
NeverClaimed(t) == \A b \in BatchId : t \notin Claimed(b)

\* C20: a submission appends the request to the queue with status pending,
\* raises the pending count by one and touches no batch; a request no tick has
\* claimed yet is pending and listed in the queue, whatever batches and
\* fallback runs have started or finished meanwhile; and the list of requests
\* of a started batch never changes.
SubmittedStaysPendingUntilClaimed ==
    /\ [](\A t \in TxId :
            (status[t] # "none" /\ NeverClaimed(t)) =>
                /\ status[t] = "pending"
                /\ Cardinality({k \in 1..Len(pendingTransactions) :
                                    pendingTransactions[k] = t}) = 1)
    /\ [][/\ \A t \in TxId :
              (status[t] = "none" /\ status'[t] # "none") =>
                  /\ status' = [status EXCEPT ![t] = "pending"]
                  /\ pendingTransactions' = Append(pendingTransactions, t)
                  /\ Len(PendingOf(Cur)') = Len(PendingOf(Cur)) + 1
                  /\ batch' = batch
          /\ \A b \in BatchId : Started(b) => batch'[b].txs = batch[b].txs]_vars

\* A batch has closed after a fallback run, and a request that no batch has
\* claimed is pending in the queue.
UnclaimedSurvivesBatch ==
    \E b \in BatchId : \E t \in TxId :
        /\ Closed(b) /\ batch[b].fb = Len(batch[b].txs) + 1
        /\ NeverClaimed(t) /\ status[t] = "pending" /\ t \in Queued

\* C21: every request listed by getPendingTransactions has status pending.
ListedArePending == \A t \in Queued : status[t] = "pending"

\* totalCompleted of getStatus: this.completedTransactions.length
TotalCompleted == SumTo(completedTransactions, Cardinality(TxId))

\* C22: the completed count of getStatus is the number of distinct requests
\* that have reached status completed: it is never below the number of
\* requests that are completed now, and it grows in a step by no more than
\* the number of requests that become completed in that step.
CompletedCountIsExact ==
    /\ [](TotalCompleted >= Cardinality({t \in TxId : status[t] = "completed"}))
    /\ [][TotalCompleted' - TotalCompleted <=
            Cardinality({t \in TxId : status[t] # "completed" /\ status'[t] = "completed"})]_vars

\* amount * 10^6 in exact decimal arithmetic, for a decimal amount with at most
\* six fractional digits.
ExactMicro(a) ==
    LET d == Decimal(a)
    IN  [nan |-> FALSE, neg |-> d.neg,
         num |-> MulSmall(LimbsOf(d.n), Pow10(6 - d.k), 0), den |-> 0]

\* C23: for a request whose amount is a decimal string with at most six
\* fractional digits, the amount of the transfer instruction on the connection
\* is the integer amount * 10^6.
WireAmountIsExact ==
    \A b \in BatchId : \A i \in 1..Len(batch[b].txs) :
        (batch[b].wire[i] > 0 /\ amount[batch[b].txs[i]] \in DecimalAmounts) =>
            batch[b].micro[i] = ExactMicro(amount[batch[b].txs[i]])

\* C24: a frame of an informational or unknown kind (tr, bu, assets, channels,
\* an unrecognised method) leaves the confirmation count and the sent count of
\* its batch, the status of every request, the queue and the in-flight flag
\* unchanged, and does not end the session of the batch.
InformationalChangesNothing ==
    [][\A b \in BatchId :
          (MsgInfo(b) \/ MsgBalanceUpdate(b)) =>
              /\ UNCHANGED <<status, pendingTransactions, isProcessing>>
              /\ batch'[b].transfersConfirmed = batch[b].transfersConfirmed
              /\ batch'[b].transfersSent = batch[b].transfersSent
              /\ batch'[b].promise = batch[b].promise]_vars

\* C25: the terminal statuses are absorbing: a request whose status is
\* completed or failed keeps that status in every later step.
TerminalStatusIsAbsorbing ==
    [][\A t \in TxId :
          status[t] \in {"completed", "failed"} => status'[t] = status[t]]_vars

\* C26: settlement and closure of a batch begin only after the instructions
\* of all claimed requests have been sent: a confirmation or a transfer error
\* that arrives while fewer instructions than claimed requests have been sent
\* starts no settlement call, does not end the session, does not close the
\* socket and leaves the queue and the in-flight flag unchanged.
ClosureWaitsForAllInstructions ==
    [][\A b \in BatchId : \A i \in Pos :
          (/\ MsgTransfer(b, i) \/ MsgTransferError(b, i)
           /\ batch[b].promise = "pending"
           /\ batch[b].transfersSent < Len(batch[b].txs)) =>
              /\ batch'[b].calls = batch[b].calls
              /\ batch'[b].settling = batch[b].settling
              /\ batch'[b].promise = "pending"
              /\ batch'[b].ws = batch[b].ws
              /\ UNCHANGED <<pendingTransactions, isProcessing>>]_vars

\* C29: at most one transfer instruction goes out per claimed request per
\* batch, whatever frames arrive, a repeated auth_verify included.
OneInstructionPerRequest ==
    \A b \in BatchId : \A i \in Pos : batch[b].wire[i] <= 1

\* A frame is delivered on the connection of batch b.
MsgAny(b) ==
    \/ MsgAuthChallenge(b)
    \/ MsgAuthVerify(b, MaxAuthVerify)
    \/ MsgAuthError(b)
    \/ \E i \in Pos : MsgTransfer(b, i) \/ MsgTransferError(b, i)
    \/ MsgRespError(b)
    \/ MsgMalformed(b)
    \/ MsgInfo(b)

\* C30: after a batch has closed (its session resolved or rejected), a frame
\* delivered on its connection changes the status of no request, starts no
\* settlement call and leaves the queue, the completed view and the in-flight
\* flag unchanged.
ClosedBatchIgnoresFrames ==
    [][\A b \in BatchId :
          (batch[b].promise \in {"resolved", "rejected"} /\ MsgAny(b)) =>
              /\ UNCHANGED <<status, pendingTransactions, completedTransactions,
                             isProcessing>>
              /\ batch'[b].calls = batch[b].calls]_vars

\* C27: every started batch eventually clears the in-flight flag, whatever the
\* network does and even if a settlement call never returns, provided the
\* timers fire.
FlagEventuallyClears == isProcessing ~> ~isProcessing

\* All the instructions of a batch were sent and answered, the settlement
\* call started by the last answer has not returned, and the in-flight flag
\* is clear with the session of the batch rejected and its timer gone.
FlagClearedWhileSettling ==
    \E b \in BatchId : \E i \in Pos :
        /\ batch[b].hs = "verified"
        /\ batch[b].transfersSent = Len(batch[b].txs)
        /\ batch[b].transfersConfirmed = batch[b].transfersSent
        /\ batch[b].settling[i] > 0
        /\ batch[b].promise = "rejected" /\ ~batch[b].timeout
        /\ ~isProcessing

\* C28: every submitted request eventually reaches status completed or failed
\* when ticks and timers fire and the settlement endpoint answers; in
\* particular a request that a batch has claimed does not keep the status
\* processing for ever.
ClaimedRequestIsResolved ==
    \A t \in TxId : (status[t] = "processing") ~> (status[t] # "processing")

====
